---- MODULE Spec2Model ----
(***************************************************************************)
(* Model of the financial-pdf-parser server: the documents and             *)
(* transactions tables (server/src/db/schema.ts) and the handlers that     *)
(* read and write them.  A handler is an operator from the database and   *)
(* its input to the database and its result; a handler that awaits several *)
(* SQL statements is one operator per statement, and a call of it is a     *)
(* sequence of steps of one call slot, so that calls interleave between    *)
(* their statements.  The handler run without interference is the          *)
(* composition of its statements.                                          *)
(*                                                                         *)
(* Text is a sequence of one-character strings, so that                    *)
(* String.prototype.includes and template literals are computed.           *)
(* A nullable column holds <<>> (NULL) or <<v>>.  A JavaScript number that *)
(* is an amount is counted in thousandths, a numeric(12,2) column value in *)
(* hundredths.  The columns upload_date and created_at (defaultNow) are    *)
(* written once and read by no statement modelled here; they are left out. *)
(***************************************************************************)
EXTENDS Integers, Sequences, FiniteSets, TLC

\* ---------------------------------------------------------------- bounds
\* number of call slots (multi-statement calls in flight at once)
NumProcs == 2
\* documents ever created (the serial never hands out more ids)
MaxDocs == 2
\* transactions ever created
MaxTx == 2
\* documents ever created where searches run next to writing calls
MaxSearchDocs == 1
\* transactions ever created where only processDocument calls run
MaxRaceTx == 6
\* Date.now() takes the values 0..MaxTimestamp
MaxTimestamp == 0
\* transactions ever created where only fixtures and queries run
MaxSeed == 3
\* the pages and the page sizes a search asks for
MaxPage == 3
MaxLimit == 2

Procs == 1..NumProcs

\* ------------------------------------------------------------- nullables
Null == <<>>
Some(v) == <<v>>
IsNull(x) == x = <<>>

\* ------------------------------------------------------------------ text
\* s.includes(sub)
Includes(s, sub) ==
  \E i \in 1..(Len(s) + 1) :
     /\ i + Len(sub) - 1 <= Len(s)
     /\ SubSeq(s, i, i + Len(sub) - 1) = sub

DigitChars == <<"0", "1", "2", "3", "4", "5", "6", "7", "8", "9">>

RECURSIVE NatToText(_)
\* `${n}` for a non-negative integer n
NatToText(n) ==
  IF n < 10 THEN <<DigitChars[n + 1]>>
  ELSE NatToText(n \div 10) \o <<DigitChars[(n % 10) + 1]>>

TxtEmpty == <<"e", "m", "p", "t", "y">>
TxtError == <<"e", "r", "r", "o", "r">>
TxtDotPdf == <<".", "p", "d", "f">>
TxtDocPrefix == <<"d", "o", "c", "_">>

\* ------------------------------------------------------- error messages
\* `Document with ID ${documentId} not found`
MsgDocumentNotFound(id) == <<"Document with ID ", id, " not found">>
\* 'PDF parsing failed - corrupted file'
MsgParsingFailed == <<"PDF parsing failed - corrupted file">>
\* the message of the database error thrown for a violated foreign key
MsgForeignKey == <<"insert or update on table \"transactions\" violates foreign key constraint">>
\* `Document with id ${input.id} not found`
MsgStatusNotFound(id) == <<"Document with id ", id, " not found">>
\* `Transaction with id ${id} not found`
MsgTransactionNotFound(id) == <<"Transaction with id ", id, " not found">>
\* zod rejection of an RPC input
MsgValidation == <<"validation failed">>

\* ----------------------------------------------------------------- state
VARIABLES
  documents,      \* documents table: id -> row
  transactions,   \* transactions table: id -> row
  nextDocId,      \* documents.id serial
  nextTxId,       \* transactions.id serial
  pc,             \* per call slot: the statement the call is about to run
  local           \* per call slot: the call's local variables

vars == <<documents, transactions, nextDocId, nextTxId, pc, local>>

\* the database as one value
DB ==
  [documents |-> documents, transactions |-> transactions,
   nextDocId |-> nextDocId, nextTxId |-> nextTxId]

\* the database after a statement
Commit(db) ==
  /\ documents' = db.documents
  /\ transactions' = db.transactions
  /\ nextDocId' = db.nextDocId
  /\ nextTxId' = db.nextTxId

NoLocal == [op |-> "none"]

\* a handler's result: the value it resolves to, or the message it throws
Ok(value) == [ok |-> TRUE, value |-> value]
Err(msg) == [ok |-> FALSE, value |-> msg]
\* no result yet: the call goes on
Pending == [ok |-> FALSE, value |-> <<>>]

DocIds == DOMAIN documents
TxIds == DOMAIN transactions

\* f without the keys ks
Remove(f, ks) == [x \in (DOMAIN f) \ ks |-> f[x]]
\* f with key k (not in its domain) added
Add(f, k, v) == [x \in (DOMAIN f) \cup {k} |-> IF x = k THEN v ELSE f[x]]

Init ==
  /\ documents = <<>>
  /\ transactions = <<>>
  /\ nextDocId = 1
  /\ nextTxId = 1
  /\ pc = [p \in Procs |-> "idle"]
  /\ local = [p \in Procs |-> NoLocal]

\* ------------------------------------------------------------- documents
\* Math.random().toString(36).substring(2, 8): up to six characters of [0-9a-z]
RandomSuffixes ==
  { <<"k", "7", "q", "2", "z", "m">>,
    <<"e", "m", "p", "t", "y", "4">>,
    <<"x", "e", "r", "r", "o", "r">> }

\* Date.now()
Timestamps == 0..MaxTimestamp

\* `doc_${timestamp}_${randomSuffix}.pdf`
GeneratedFilename(timestamp, randomSuffix) ==
  TxtDocPrefix \o NatToText(timestamp) \o <<"_">> \o randomSuffix \o TxtDotPdf

TxtPdfMime == "application/pdf"
NameEmpty == <<"e", "m", "p", "t", "y", ".", "p", "d", "f">>
NameError == <<"e", "r", "r", "o", "r", ".", "p", "d", "f">>

\* the inputs of the uploadDocument RPC that are tried
UploadInputs ==
  { [filename |-> NameError, original_name |-> NameEmpty,
     file_size |-> 2048, mime_type |-> TxtPdfMime],
    [filename |-> NameError, original_name |-> NameEmpty,
     file_size |-> 0, mime_type |-> TxtPdfMime],
    [filename |-> NameError, original_name |-> NameEmpty,
     file_size |-> 2048, mime_type |-> "text/plain"] }

\* uploadDocumentInputSchema: file_size positive, mime_type 'application/pdf'
uploadDocumentInputSchema(input) ==
  /\ input.file_size > 0
  /\ input.mime_type = TxtPdfMime

\* the row an insert into documents creates (schema defaults filled in)
NewDocument(id, filename, original_name, file_size, mime_type) ==
  [id |-> id, filename |-> filename, original_name |-> original_name,
   file_size |-> file_size, mime_type |-> mime_type,
   processing_status |-> "pending", error_message |-> Null]

\* insert into documents ... returning
InsertDocumentRow(db, filename, original_name, file_size, mime_type) ==
  LET row == NewDocument(db.nextDocId, filename, original_name, file_size, mime_type)
  IN [db |-> [db EXCEPT !.documents = Add(db.documents, db.nextDocId, row),
                        !.nextDocId = db.nextDocId + 1],
      row |-> row]

\* uploadDocument storing input.filename as the original name
uploadDocument_inputFilename(db, input, timestamp, randomSuffix) ==
  LET r == InsertDocumentRow(db, GeneratedFilename(timestamp, randomSuffix),
                             input.filename, input.file_size, input.mime_type)
  IN [db |-> r.db, ret |-> Ok(r.row)]

\* uploadDocument storing input.filename as the filename
uploadDocument_keepFilename(db, input, timestamp, randomSuffix) ==
  LET r == InsertDocumentRow(db, input.filename,
                             input.original_name, input.file_size, input.mime_type)
  IN [db |-> r.db, ret |-> Ok(r.row)]

\* the handler: generate the filename, insert, return result[0]
uploadDocument(db, input, timestamp, randomSuffix) ==
  LET r == InsertDocumentRow(db, GeneratedFilename(timestamp, randomSuffix),
                             input.original_name, input.file_size, input.mime_type)
  IN [db |-> r.db, ret |-> Ok(r.row)]

\* the procedure without .input(uploadDocumentInputSchema)
uploadDocumentRpc_noSchema(db, input, timestamp, randomSuffix) ==
  uploadDocument(db, input, timestamp, randomSuffix)

\* the uploadDocument procedure of the router: the schema, then the handler
uploadDocumentRpc(db, input, timestamp, randomSuffix) ==
  IF uploadDocumentInputSchema(input)
  THEN uploadDocument(db, input, timestamp, randomSuffix)
  ELSE [db |-> db, ret |-> Err(MsgValidation)]

UploadDocument ==
  \E input \in UploadInputs, timestamp \in Timestamps, randomSuffix \in RandomSuffixes :
    /\ nextDocId <= MaxDocs
    /\ Commit(uploadDocumentRpc(DB, input, timestamp, randomSuffix).db)
    /\ UNCHANGED <<pc, local>>

\* a stored filename with both markers, which no generated filename has
TestFilenames ==
  { <<"e", "m", "p", "t", "y", "-", "e", "r", "r", "o", "r", ".", "p", "d", "f">> }
NameBank == <<"B", "a", "n", "k", ".", "p", "d", "f">>

\* a document row written straight into the table, as the tests' fixtures do
InsertDocument ==
  \E filename \in TestFilenames :
    /\ nextDocId <= MaxDocs
    /\ Commit(InsertDocumentRow(DB, filename, NameBank, 1024000, TxtPdfMime).db)
    /\ UNCHANGED <<pc, local>>

\* testDocument of the processDocument tests, written straight into the table
NameTestDocument ==
  <<"t", "e", "s", "t", "-", "d", "o", "c", "u", "m", "e", "n", "t", ".", "p", "d", "f">>

InsertTestDocument ==
  /\ nextDocId <= MaxSearchDocs
  /\ Commit(InsertDocumentRow(DB, NameTestDocument, NameBank, 1024000, TxtPdfMime).db)
  /\ UNCHANGED <<pc, local>>

\* DeleteDocumentRow cascading to every transaction
DeleteDocumentRow_cascadeAll(db, id) ==
  [db EXCEPT !.documents = Remove(db.documents, {id}), !.transactions = <<>>]

\* delete from documents where id = ...; transactions.document_id is
\* declared onDelete: 'cascade'
DeleteDocumentRow(db, id) ==
  [db EXCEPT !.documents = Remove(db.documents, {id}),
             !.transactions = Remove(db.transactions,
                {t \in DOMAIN db.transactions : db.transactions[t].document_id = id})]

DeleteDocument ==
  \E id \in DocIds :
    /\ Commit(DeleteDocumentRow(DB, id))
    /\ UNCHANGED <<pc, local>>

\* update documents set processing_status, error_message where id = ...:
\* no such row, no change
SetStatus(db, id, status, error_message) ==
  IF id \in DOMAIN db.documents
  THEN [db EXCEPT !.documents[id].processing_status = status,
                  !.documents[id].error_message = error_message]
  ELSE db

\* ---------------------------------------------------------- transactions
\* the value a numeric(12,2) column stores (in hundredths) for the decimal
\* string of a JavaScript number (in thousandths): rounded half away from zero
\* (the amounts tried stay far below the column's twelve digits)
ToNumeric(number) ==
  IF number >= 0 THEN (number + 5) \div 10 ELSE -((5 - number) \div 10)

\* parseFloat of a numeric(12,2) column's string: a number, in thousandths
ParseFloat(numeric) == numeric * 10

\* the row an insert into transactions creates from a handler's values
NewTransaction(id, document_id, data) ==
  [id |-> id, document_id |-> document_id,
   transaction_date |-> data.transaction_date,
   amount |-> ToNumeric(data.amount),
   description |-> data.description,
   account_number |-> data.account_number,
   vendor_name |-> data.vendor_name,
   transaction_type |-> data.transaction_type]

\* InsertTransactionRow with no foreign key on document_id
InsertTransactionRow_noForeignKey(db, document_id, data) ==
  LET row == NewTransaction(db.nextTxId, document_id, data)
  IN [db |-> [db EXCEPT !.transactions = Add(db.transactions, db.nextTxId, row),
                        !.nextTxId = db.nextTxId + 1],
      ok |-> TRUE, row |-> row]

\* insert into transactions ... returning: the foreign key rejects a row
\* whose document is missing (the serial is consumed all the same)
InsertTransactionRow(db, document_id, data) ==
  LET row == NewTransaction(db.nextTxId, document_id, data)
  IN IF document_id \in DOMAIN db.documents
     THEN [db |-> [db EXCEPT !.transactions = Add(db.transactions, db.nextTxId, row),
                             !.nextTxId = db.nextTxId + 1],
           ok |-> TRUE, row |-> row]
     ELSE [db |-> [db EXCEPT !.nextTxId = db.nextTxId + 1],
           ok |-> FALSE, row |-> MsgForeignKey]

\* { ...transaction, amount: parseFloat(transaction.amount) }
Returned(row) == [row EXCEPT !.amount = ParseFloat(row.amount)]

TxtAtmWithdrawal == <<"A", "T", "M", " ", "W", "i", "t", "h", "d", "r", "a", "w", "a", "l">>
TxtDirectDeposit ==
  <<"D", "i", "r", "e", "c", "t", " ", "D", "e", "p", "o", "s", "i", "t", " ",
    "S", "a", "l", "a", "r", "y">>
TxtAccount == <<"*", "*", "*", "*", "1", "2", "3", "4">>
TxtChaseAtm == <<"C", "h", "a", "s", "e", " ", "A", "T", "M">>
TxtAcmeCorp == <<"A", "C", "M", "E", " ", "C", "o", "r", "p">>

\* new Date('2024-01-15'), new Date('2024-01-16'), as day numbers
Date20240115 == 20240115
Date20240116 == 20240116

mockTransactions ==
  << [transaction_date |-> Date20240115, amount |-> -150750,
      description |-> TxtAtmWithdrawal, account_number |-> Some(TxtAccount),
      vendor_name |-> Some(TxtChaseAtm), transaction_type |-> Some("debit")],
     [transaction_date |-> Date20240116, amount |-> 2500000,
      description |-> TxtDirectDeposit, account_number |-> Some(TxtAccount),
      vendor_name |-> Some(TxtAcmeCorp), transaction_type |-> Some("credit")] >>

\* extractTransactionsFromDocument looking for 'error' before 'empty'
extractTransactionsFromDocument_errorFirst(document) ==
  IF Includes(document.filename, TxtError) THEN Err(MsgParsingFailed)
  ELSE IF Includes(document.filename, TxtEmpty) THEN Ok(<<>>)
  ELSE Ok(mockTransactions)

\* what extractTransactionsFromDocument resolves to, or the message it throws
extractTransactionsFromDocument(document) ==
  IF Includes(document.filename, TxtEmpty) THEN Ok(<<>>)
  ELSE IF Includes(document.filename, TxtError) THEN Err(MsgParsingFailed)
  ELSE Ok(mockTransactions)

\* ------------------------------------------------------- processDocument
\* a call between two statements: the database, the statement to run next,
\* the call's local variables and, once it has returned, its result
Config(db, next, l, ret) == [db |-> db, pc |-> next, local |-> l, ret |-> ret]

PdLocal(documentId, document, extracted, saved, error) ==
  [op |-> "processDocument", documentId |-> documentId, document |-> document,
   extracted |-> extracted, saved |-> saved, error |-> error]

\* const document = documents[0]: of the row read, the call reads only filename
Read(row) == [filename |-> row.filename]

\* pd_select creating the row it did not find instead of throwing
pd_select_upsert(db, documentId) ==
  IF documentId \notin DOMAIN db.documents
  THEN LET row == NewDocument(documentId, NameBank, NameBank, 1, TxtPdfMime)
       IN Config([db EXCEPT !.documents = Add(db.documents, documentId, row)], "pd_mark",
                 PdLocal(documentId, Some(Read(row)), <<>>, <<>>, Null), Pending)
  ELSE Config(db, "pd_mark",
              PdLocal(documentId, Some(Read(db.documents[documentId])), <<>>, <<>>, Null),
              Pending)

\* pd_select returning at once for a document that is already 'completed'
pd_select_skipCompleted(db, documentId) ==
  IF documentId \notin DOMAIN db.documents
  THEN Config(db, "pd_catch",
              PdLocal(documentId, Null, <<>>, <<>>, MsgDocumentNotFound(documentId)), Pending)
  ELSE IF db.documents[documentId].processing_status = "completed"
  THEN Config(db, "idle", NoLocal, Ok(<<>>))
  ELSE Config(db, "pd_mark",
              PdLocal(documentId, Some(Read(db.documents[documentId])), <<>>, <<>>, Null),
              Pending)

\* 1. select the document; none: throw
pd_select(db, documentId) ==
  IF documentId \notin DOMAIN db.documents
  THEN Config(db, "pd_catch",
              PdLocal(documentId, Null, <<>>, <<>>, MsgDocumentNotFound(documentId)), Pending)
  ELSE Config(db, "pd_mark",
              PdLocal(documentId, Some(Read(db.documents[documentId])), <<>>, <<>>, Null),
              Pending)

\* pd_mark resetting the status to 'pending'
pd_mark_pending(db, l) ==
  Config(SetStatus(db, l.documentId, "pending", Null), "pd_extract", l, Pending)

\* pd_mark leaving the stored error_message as it is
pd_mark_keepError(db, l) ==
  Config(IF l.documentId \in DOMAIN db.documents
         THEN SetStatus(db, l.documentId, "processing",
                        db.documents[l.documentId].error_message)
         ELSE db,
         "pd_extract", l, Pending)

\* 2. status 'processing', error_message null
pd_mark(db, l) ==
  Config(SetStatus(db, l.documentId, "processing", Null), "pd_extract", l, Pending)

\* pd_extract issuing the 'completed' update before the inserts
pd_extract_completeFirst(db, l) ==
  LET r == extractTransactionsFromDocument(l.document[1])
  IN IF ~r.ok THEN Config(db, "pd_catch", [l EXCEPT !.error = r.value], Pending)
     ELSE Config(SetStatus(db, l.documentId, "completed", Null),
                 IF r.value = <<>> THEN "pd_complete" ELSE "pd_insert",
                 [l EXCEPT !.extracted = r.value], Pending)

\* 3. extract from the document row read in 1.
pd_extract(db, l) ==
  LET r == extractTransactionsFromDocument(l.document[1])
  IN IF ~r.ok THEN Config(db, "pd_catch", [l EXCEPT !.error = r.value], Pending)
     ELSE Config(db, IF r.value = <<>> THEN "pd_complete" ELSE "pd_insert",
                 [l EXCEPT !.extracted = r.value], Pending)

\* pd_insert leaving the loop after its first insert
pd_insert_once(db, l) ==
  LET r == InsertTransactionRow(db, l.documentId, l.extracted[Len(l.saved) + 1])
  IN IF ~r.ok THEN Config(r.db, "pd_catch", [l EXCEPT !.error = r.row], Pending)
     ELSE Config(r.db, "pd_complete",
                 [l EXCEPT !.saved = Append(l.saved, Returned(r.row))], Pending)

\* pd_insert refusing to insert once the document is no longer 'processing'
pd_insert_ifProcessing(db, l) ==
  IF l.documentId \in DOMAIN db.documents
       /\ db.documents[l.documentId].processing_status # "processing"
  THEN Config(db, "pd_catch", [l EXCEPT !.error = <<"not processing">>], Pending)
  ELSE LET r == InsertTransactionRow(db, l.documentId, l.extracted[Len(l.saved) + 1])
       IN IF ~r.ok THEN Config(r.db, "pd_catch", [l EXCEPT !.error = r.row], Pending)
          ELSE Config(r.db,
                      IF Len(l.saved) + 1 = Len(l.extracted) THEN "pd_complete" ELSE "pd_insert",
                      [l EXCEPT !.saved = Append(l.saved, Returned(r.row))], Pending)

\* 4. once per extracted transaction: insert, push the returned row
pd_insert(db, l) ==
  LET r == InsertTransactionRow(db, l.documentId, l.extracted[Len(l.saved) + 1])
  IN IF ~r.ok THEN Config(r.db, "pd_catch", [l EXCEPT !.error = r.row], Pending)
     ELSE Config(r.db,
                 IF Len(l.saved) + 1 = Len(l.extracted) THEN "pd_complete" ELSE "pd_insert",
                 [l EXCEPT !.saved = Append(l.saved, Returned(r.row))], Pending)

\* 5. status 'completed', error_message null; return savedTransactions
pd_complete(db, l) ==
  Config(SetStatus(db, l.documentId, "completed", Null), "idle", NoLocal, Ok(l.saved))

\* pd_catch storing a fixed text instead of error.message
pd_catch_unknown(db, l) ==
  Config(SetStatus(db, l.documentId, "failed", Some(<<"Unknown processing error">>)),
         "idle", NoLocal, Err(l.error))

\* pd_catch rethrowing without the update to 'failed'
pd_catch_rethrowOnly(db, l) == Config(db, "idle", NoLocal, Err(l.error))

\* catch: status 'failed', error_message error.message; rethrow
pd_catch(db, l) ==
  Config(SetStatus(db, l.documentId, "failed", Some(l.error)), "idle", NoLocal, Err(l.error))

\* the statement a call in flight runs next
PdStatement(c) ==
  CASE c.pc = "pd_mark" -> pd_mark(c.db, c.local)
    [] c.pc = "pd_extract" -> pd_extract(c.db, c.local)
    [] c.pc = "pd_insert" -> pd_insert(c.db, c.local)
    [] c.pc = "pd_complete" -> pd_complete(c.db, c.local)
    [] c.pc = "pd_catch" -> pd_catch(c.db, c.local)

RECURSIVE PdRun(_)
\* a call run to its return with no other statement in between
PdRun(c) == IF c.pc = "idle" THEN c ELSE PdRun(PdStatement(c))

\* processDocument(documentId) on its own: the database after it and its result
processDocument(db, documentId) == PdRun(pd_select(db, documentId))

\* the ids a caller passes: every id handed out so far, and the next one
CallDocIds == 1..nextDocId

\* the inserts the call in slot p may still make
Owed(p) ==
  CASE pc[p] \in {"pd_mark", "pd_extract"} ->
         LET r == extractTransactionsFromDocument(local[p].document[1])
         IN IF r.ok THEN Len(r.value) ELSE 0
    [] pc[p] = "pd_insert" -> Len(local[p].extracted) - Len(local[p].saved)
    [] pc[p] = "ct_insert" -> 1
    [] OTHER -> 0

RECURSIVE SumOwed(_)
SumOwed(ps) ==
  IF ps = {} THEN 0 ELSE LET p == CHOOSE q \in ps : TRUE IN Owed(p) + SumOwed(ps \ {p})

\* the transactions serial has n more ids left for a new call
Budget(n) == (nextTxId - 1) + SumOwed(Procs) + n <= MaxTx

\* call slots are interchangeable: a new call takes the lowest free one
Free(p) == pc[p] = "idle" /\ \A q \in Procs : q < p => pc[q] # "idle"

\* a call slot runs the statement c
Step(p, c) ==
  /\ Commit(c.db)
  /\ pc' = [pc EXCEPT ![p] = c.pc]
  /\ local' = [local EXCEPT ![p] = c.local]

PD_Select(p) ==
  \E documentId \in CallDocIds :
    /\ Free(p)
    /\ Step(p, pd_select(DB, documentId))
    /\ Budget(Owed(p)')

PD_Mark(p) == pc[p] = "pd_mark" /\ Step(p, pd_mark(DB, local[p]))

PD_Extract(p) == pc[p] = "pd_extract" /\ Step(p, pd_extract(DB, local[p]))

PD_Insert(p) == pc[p] = "pd_insert" /\ Step(p, pd_insert(DB, local[p]))

PD_Complete(p) == pc[p] = "pd_complete" /\ Step(p, pd_complete(DB, local[p]))

PD_Catch(p) == pc[p] = "pd_catch" /\ Step(p, pd_catch(DB, local[p]))

\* ----------------------------------------------------- createTransaction
TxtCoffee == <<"C", "o", "f", "f", "e", "e">>
TxtRefund == <<"r", "e", "f", "u", "n", "d">>
Date20231201 == 20231201

\* the transaction fields of the createTransaction inputs that are tried
CreateData ==
  { [transaction_date |-> Date20231201, amount |-> 4500,
     description |-> TxtCoffee, account_number |-> Null,
     vendor_name |-> Null, transaction_type |-> Null],
    [transaction_date |-> Date20240116, amount |-> 1005,
     description |-> TxtRefund, account_number |-> Some(TxtAccount),
     vendor_name |-> Some(TxtAcmeCorp), transaction_type |-> Some("credit")] }

CreateInput(document_id, data) ==
  [document_id |-> document_id, transaction_date |-> data.transaction_date,
   amount |-> data.amount, description |-> data.description,
   account_number |-> data.account_number, vendor_name |-> data.vendor_name,
   transaction_type |-> data.transaction_type]

\* ct_select without the test for an empty result
ct_select_noCheck(db, input) ==
  Config(db, "ct_insert", [op |-> "createTransaction", input |-> input], Pending)

\* 1. select the document; none: throw (the catch logs and rethrows)
ct_select(db, input) ==
  IF input.document_id \notin DOMAIN db.documents
  THEN Config(db, "idle", NoLocal, Err(MsgDocumentNotFound(input.document_id)))
  ELSE Config(db, "ct_insert", [op |-> "createTransaction", input |-> input], Pending)

\* 2. insert ... returning; return the row with its amount parsed
ct_insert(db, l) ==
  LET r == InsertTransactionRow(db, l.input.document_id, l.input)
  IN Config(r.db, "idle", NoLocal, IF r.ok THEN Ok(Returned(r.row)) ELSE Err(r.row))

\* createTransaction(input) on its own
createTransaction(db, input) ==
  LET c == ct_select(db, input)
  IN IF c.pc = "idle" THEN c ELSE ct_insert(c.db, c.local)

CT_Select(p) ==
  \E document_id \in CallDocIds, data \in CreateData :
    /\ Free(p)
    /\ Step(p, ct_select(DB, CreateInput(document_id, data)))
    /\ Budget(Owed(p)')

CT_Insert(p) == pc[p] = "ct_insert" /\ Step(p, ct_insert(DB, local[p]))

\* -------------------------------------------------- updateDocumentStatus
TxtManualError == <<"m", "a", "n", "u", "a", "l">>

\* updateDocumentStatusInputSchema: error_message is optional and nullable
StatusInputs(id) ==
  { [id |-> id, processing_status |-> "pending"],
    [id |-> id, processing_status |-> "processing"],
    [id |-> id, processing_status |-> "completed", error_message |-> Some(TxtManualError)],
    [id |-> id, processing_status |-> "failed"],
    [id |-> id, processing_status |-> "failed", error_message |-> Null],
    [id |-> id, processing_status |-> "failed", error_message |-> Some(TxtManualError)] }

\* updateDocumentStatus that never clears the stored error_message
updateDocumentStatus_keepError(db, input) ==
  IF input.id \notin DOMAIN db.documents
  THEN [db |-> db, ret |-> Err(MsgStatusNotFound(input.id))]
  ELSE LET error_message ==
             IF "error_message" \in DOMAIN input THEN input.error_message
             ELSE db.documents[input.id].error_message
           after == SetStatus(db, input.id, input.processing_status, error_message)
       IN [db |-> after, ret |-> Ok(after.documents[input.id])]

\* updateDocumentStatus that returns result[0] without testing result.length
updateDocumentStatus_noLength(db, input) ==
  IF input.id \notin DOMAIN db.documents
  THEN [db |-> db, ret |-> Ok(Null)]
  ELSE LET error_message ==
             IF input.processing_status = "failed"
             THEN IF "error_message" \in DOMAIN input THEN input.error_message
                  ELSE db.documents[input.id].error_message
             ELSE Null
           after == SetStatus(db, input.id, input.processing_status, error_message)
       IN [db |-> after, ret |-> Ok(after.documents[input.id])]

\* the single update ... returning: processing_status always, error_message
\* unless the status is 'failed' and the input has none
updateDocumentStatus(db, input) ==
  IF input.id \notin DOMAIN db.documents
  THEN [db |-> db, ret |-> Err(MsgStatusNotFound(input.id))]
  ELSE LET error_message ==
             IF input.processing_status = "failed"
             THEN IF "error_message" \in DOMAIN input THEN input.error_message
                  ELSE db.documents[input.id].error_message
             ELSE Null
           after == SetStatus(db, input.id, input.processing_status, error_message)
       IN [db |-> after, ret |-> Ok(after.documents[input.id])]

UpdateDocumentStatus ==
  \E id \in CallDocIds :
    \E input \in StatusInputs(id) :
      /\ Commit(updateDocumentStatus(DB, input).db)
      /\ UNCHANGED <<pc, local>>

\* ----------------------------------------------------- deleteTransaction
\* the ids a caller passes: every id handed out so far, and the next one
CallTxIds == 1..nextTxId

\* deleteTransaction deleting where id >= ... instead of id = ...
deleteTransaction_from(db, id) ==
  IF id \notin DOMAIN db.transactions
  THEN [db |-> db, ret |-> Err(MsgTransactionNotFound(id))]
  ELSE [db |-> [db EXCEPT !.transactions =
                  Remove(db.transactions, {t \in DOMAIN db.transactions : t >= id})],
        ret |-> Ok([success |-> TRUE])]

\* deleteTransaction resolving to success whether or not a row was deleted
deleteTransaction_always(db, id) ==
  [db |-> [db EXCEPT !.transactions = Remove(db.transactions, {id})],
   ret |-> Ok([success |-> TRUE])]

\* delete from transactions where id = ...; no row deleted: throw
deleteTransaction(db, id) ==
  IF id \notin DOMAIN db.transactions
  THEN [db |-> db, ret |-> Err(MsgTransactionNotFound(id))]
  ELSE [db |-> [db EXCEPT !.transactions = Remove(db.transactions, {id})],
        ret |-> Ok([success |-> TRUE])]

DeleteTransaction ==
  \E id \in CallTxIds :
    /\ Commit(deleteTransaction(DB, id).db)
    /\ UNCHANGED <<pc, local>>

\* ---------------------------------------------------- searchTransactions
UpperLetters ==
  <<"A", "B", "C", "D", "E", "F", "G", "H", "I", "J", "K", "L", "M",
    "N", "O", "P", "Q", "R", "S", "T", "U", "V", "W", "X", "Y", "Z">>
LowerLetters ==
  <<"a", "b", "c", "d", "e", "f", "g", "h", "i", "j", "k", "l", "m",
    "n", "o", "p", "q", "r", "s", "t", "u", "v", "w", "x", "y", "z">>

\* the lower-case form of a character, as ILIKE folds it
LowerChar(c) ==
  IF \E i \in 1..26 : UpperLetters[i] = c
  THEN LowerLetters[CHOOSE i \in 1..26 : UpperLetters[i] = c]
  ELSE c
LowerText(s) == [i \in 1..Len(s) |-> LowerChar(s[i])]

RECURSIVE LikeMatch(_, _)
\* text LIKE pattern: % is any run of characters, _ any one character, and
\* a backslash makes the character after it literal
LikeMatch(text, pattern) ==
  IF pattern = <<>> THEN text = <<>>
  ELSE IF pattern[1] = "%"
       THEN \/ LikeMatch(text, Tail(pattern))
            \/ text # <<>> /\ LikeMatch(Tail(text), pattern)
  ELSE IF pattern[1] = "_"
       THEN text # <<>> /\ LikeMatch(Tail(text), Tail(pattern))
  ELSE IF pattern[1] = "\\"
       THEN /\ Len(pattern) >= 2
            /\ text # <<>>
            /\ text[1] = pattern[2]
            /\ LikeMatch(Tail(text), Tail(Tail(pattern)))
  ELSE text # <<>> /\ text[1] = pattern[1] /\ LikeMatch(Tail(text), Tail(pattern))

\* ilike(column, `%${search_term}%`)
ILike(text, search_term) ==
  LikeMatch(LowerText(text), <<"%">> \o LowerText(search_term) \o <<"%">>)

\* the rows the search tests write straight into the table: short texts in
\* both cases, a NULL vendor, a NULL account, two rows of one date and two
\* of one amount
TxtAb == <<"A", "b">>
TxtBa == <<"b", "a">>
TxtB == <<"b">>
TxtVendorAB == <<"a", "B">>
TxtAcct == <<"7">>
SearchRows ==
  { [transaction_date |-> Date20240115, amount |-> 1000,
     description |-> TxtAb, account_number |-> Some(TxtAcct),
     vendor_name |-> Null, transaction_type |-> Some("debit")],
    [transaction_date |-> Date20240115, amount |-> 2500,
     description |-> TxtBa, account_number |-> Null,
     vendor_name |-> Some(TxtVendorAB), transaction_type |-> Some("credit")],
    [transaction_date |-> Date20240116, amount |-> 1000,
     description |-> TxtB, account_number |-> Some(TxtAcct),
     vendor_name |-> Some(TxtB), transaction_type |-> Null] }

\* db.insert(transactionsTable).values(...) of a test's fixture
SeedTransaction ==
  \E document_id \in DocIds, data \in SearchRows :
    /\ nextTxId <= MaxSeed
    /\ Commit(InsertTransactionRow(DB, document_id, data).db)
    /\ UNCHANGED <<pc, local>>

\* an input with one more field; an optional field that is undefined is a
\* field the record does not have
With(input, field, value) ==
  [f \in DOMAIN input \cup {field} |-> IF f = field THEN value ELSE input[f]]

Has(input, field) == field \in DOMAIN input
\* if (input.field) for a string: defined and not ''
Truthy(input, field) == Has(input, field) /\ input[field] # <<>>

\* and(...conditions) of the search, row by row (a comparison with NULL is
\* not true)
Where(row, input) ==
  /\ Truthy(input, "search_term") =>
       \/ ILike(row.description, input.search_term)
       \/ row.vendor_name # Null /\ ILike(row.vendor_name[1], input.search_term)
  /\ Has(input, "date_from") => row.transaction_date >= input.date_from
  /\ Has(input, "date_to") => row.transaction_date <= input.date_to
  /\ Has(input, "min_amount") => ParseFloat(row.amount) >= input.min_amount
  /\ Has(input, "max_amount") => ParseFloat(row.amount) <= input.max_amount
  /\ Truthy(input, "account_number") => row.account_number = Some(input.account_number)
  /\ Truthy(input, "vendor_name") => row.vendor_name = Some(input.vendor_name)
  /\ Has(input, "transaction_type") => row.transaction_type = Some(input.transaction_type)

\* the place of a letter in the order of the database's collation, taken
\* here by code point
CharRank(c) == CHOOSE i \in 1..52 : (UpperLetters \o LowerLetters)[i] = c

RECURSIVE TextLeq(_, _)
\* a <= b for two text values
TextLeq(a, b) ==
  IF a = <<>> THEN TRUE
  ELSE IF b = <<>> THEN FALSE
  ELSE IF a[1] = b[1] THEN TextLeq(Tail(a), Tail(b))
  ELSE CharRank(a[1]) < CharRank(b[1])

\* row a is not after row b in ascending order of the column sort_by; in
\* a nullable column NULL is after every value (NULLS LAST ascending, NULLS
\* FIRST descending)
KeyLeq(a, b, sort_by) ==
  CASE sort_by = "transaction_date" -> a.transaction_date <= b.transaction_date
    [] sort_by = "amount" -> a.amount <= b.amount
    [] sort_by = "description" -> TextLeq(a.description, b.description)
    [] sort_by = "vendor_name" ->
         \/ b.vendor_name = Null
         \/ a.vendor_name # Null /\ TextLeq(a.vendor_name[1], b.vendor_name[1])
    [] OTHER -> TRUE

\* Sorted that orders ascending whatever sort_order is
Sorted_ascending(ids, txs, sort_by, sort_order) ==
  \A i \in 1..(Len(ids) - 1) : KeyLeq(txs[ids[i]], txs[ids[i + 1]], sort_by)

\* the sequence of ids is in the order of orderBy(asc(column)) or
\* orderBy(desc(column)); rows of equal keys are in any order
Sorted(ids, txs, sort_by, sort_order) ==
  \A i \in 1..(Len(ids) - 1) :
    IF sort_order = "desc"
    THEN KeyLeq(txs[ids[i + 1]], txs[ids[i]], sort_by)
    ELSE KeyLeq(txs[ids[i]], txs[ids[i + 1]], sort_by)

\* the sequences that list every element of S once
Perms(S) ==
  {q \in [1..Cardinality(S) -> S] : \A i, j \in DOMAIN q : q[i] = q[j] => i = j}

\* the ids of the rows the where clause selects
Matches(db, input) ==
  {t \in DOMAIN db.transactions : Where(db.transactions[t], input)}

\* the orders in which the database may produce the selected rows
Orders(db, input) ==
  {q \in Perms(Matches(db, input)) :
     Sorted(q, db.transactions, input.sort_by, input.sort_order)}

\* limit(input.limit).offset(offset) of the ordered rows
Page(order, page, limit) ==
  LET offset == (page - 1) * limit
      last == IF offset + limit <= Len(order) THEN offset + limit ELSE Len(order)
  IN IF offset >= Len(order) THEN <<>> ELSE SubSeq(order, offset + 1, last)

\* Math.ceil(a / b) for a >= 0, b > 0
Ceil(a, b) == (a + b - 1) \div b

\* st_query without limit(input.limit): every row from the offset on
st_query_noLimit(db, input, order) ==
  LET ids == Page(order, input.page, Len(order) + 1)
  IN Config(db, "st_count",
            [op |-> "searchTransactions", input |-> input,
             results |-> [i \in 1..Len(ids) |-> db.transactions[ids[i]]]],
            Pending)

\* 1. the main query: where, orderBy, limit, offset
st_query(db, input, order) ==
  LET ids == Page(order, input.page, input.limit)
  IN Config(db, "st_count",
            [op |-> "searchTransactions", input |-> input,
             results |-> [i \in 1..Len(ids) |-> db.transactions[ids[i]]]],
            Pending)

\* 2. the count query with the same conditions; the response
st_count(db, l) ==
  LET totalCount == Cardinality(Matches(db, l.input))
  IN Config(db, "idle", NoLocal,
            Ok([transactions |-> [i \in 1..Len(l.results) |-> Returned(l.results[i])],
                total_count |-> totalCount,
                page |-> l.input.page,
                limit |-> l.input.limit,
                total_pages |-> Ceil(totalCount, l.input.limit)]))

\* searchTransactions(input) on its own, the main query producing its rows
\* in the given order
searchTransactions(db, input, order) ==
  LET c == st_query(db, input, order)
  IN st_count(c.db, c.local)

\* the search inputs that are tried: the filters, one kind at a time and
\* some together, and the sorting and paging of searchTransactionsInputSchema
NoFilter == <<>>
SearchTerms ==
  { <<>>, <<"a">>, <<"B">>, <<"a", "b">>, <<"_">>, <<"%">>, <<"\\">> }
SearchDates == {Date20240115, Date20240116}
SearchAmounts == {0, 1000, 1005, 2500}
SearchFilters ==
  {NoFilter}
  \cup {With(NoFilter, "search_term", v) : v \in SearchTerms}
  \cup {With(NoFilter, "date_from", v) : v \in SearchDates}
  \cup {With(NoFilter, "date_to", v) : v \in SearchDates}
  \cup {With(With(NoFilter, "date_from", v), "date_to", w) : v, w \in SearchDates}
  \cup {With(NoFilter, "min_amount", v) : v \in SearchAmounts}
  \cup {With(NoFilter, "max_amount", v) : v \in SearchAmounts}
  \cup {With(With(NoFilter, "min_amount", v), "max_amount", w) : v, w \in {1000, 2500}}
  \cup {With(NoFilter, "account_number", v) : v \in {<<>>, TxtAcct}}
  \cup {With(NoFilter, "vendor_name", v) : v \in {<<>>, TxtB, TxtVendorAB, TxtAb}}
  \cup {With(NoFilter, "transaction_type", v) : v \in {"debit", "credit", "fee"}}
  \cup {With(With(NoFilter, "search_term", TxtB), "transaction_type", "credit"),
        With(With(With(NoFilter, "account_number", TxtAcct), "min_amount", 1000),
             "date_to", Date20240115)}
SortBys == {"transaction_date", "amount", "description", "vendor_name"}
SortOrders == {"asc", "desc"}
Pages == 1..MaxPage
Limits == 1..MaxLimit

SearchInput(filter, sort_by, sort_order, page, limit) ==
  With(With(With(With(filter, "sort_by", sort_by), "sort_order", sort_order),
            "page", page), "limit", limit)

\* the searches that are run while other calls write: with and without a
\* filter, the default sorting, first and later pages
RacingSearches ==
  { SearchInput(filter, "transaction_date", "desc", page, limit) :
      filter \in {NoFilter, With(NoFilter, "min_amount", 1005)},
      page \in 1..2, limit \in Limits }

ST_Query(p) ==
  \E input \in RacingSearches :
    \E order \in Orders(DB, input) :
      /\ Free(p)
      /\ Step(p, st_query(DB, input, order))

ST_Count(p) == pc[p] = "st_count" /\ Step(p, st_count(DB, local[p]))

\* ------------------------------------------------ getDocumentTransactions
\* the orders in which the database may produce the transactions of a
\* document under orderBy(asc(transaction_date))
DocumentOrders(db, documentId) ==
  {q \in Perms({t \in DOMAIN db.transactions : db.transactions[t].document_id = documentId}) :
     Sorted(q, db.transactions, "transaction_date", "asc")}

\* 1. select the document; none: throw (the catch logs and rethrows)
gd_select(db, documentId) ==
  IF documentId \notin DOMAIN db.documents
  THEN Config(db, "idle", NoLocal, Err(MsgDocumentNotFound(documentId)))
  ELSE Config(db, "gd_query", [op |-> "getDocumentTransactions", documentId |-> documentId],
              Pending)

\* gd_query without the where clause on document_id
gd_query_all(db, l, order) ==
  LET ids == CHOOSE q \in Perms(DOMAIN db.transactions) :
               Sorted(q, db.transactions, "transaction_date", "asc")
  IN Config(db, "idle", NoLocal,
            Ok([i \in 1..Len(ids) |-> Returned(db.transactions[ids[i]])]))

\* 2. select the document's transactions by date; return them with their
\* amounts parsed
gd_query(db, l, order) ==
  Config(db, "idle", NoLocal,
         Ok([i \in 1..Len(order) |-> Returned(db.transactions[order[i]])]))

\* getDocumentTransactions(documentId) on its own, the query producing its
\* rows in the given order
getDocumentTransactions(db, documentId, order) ==
  LET c == gd_select(db, documentId)
  IN IF c.pc = "idle" THEN c ELSE gd_query(c.db, c.local, order)

\* -------------------------------------------------------- getTransactions
\* the orders in which the database may produce all transactions under
\* orderBy(desc(transaction_date))
AllOrders(db) ==
  {q \in Perms(DOMAIN db.transactions) : Sorted(q, db.transactions, "transaction_date", "desc")}

\* getTransactions listing the rows from the oldest to the most recent
getTransactions_oldestFirst(db, order) ==
  [db |-> db,
   ret |-> Ok([i \in 1..Len(order) |-> Returned(db.transactions[order[Len(order) + 1 - i]])])]

\* the single select ... orderBy(desc(transaction_date)), amounts parsed
getTransactions(db, order) ==
  [db |-> db,
   ret |-> Ok([i \in 1..Len(order) |-> Returned(db.transactions[order[i]])])]

\* ----------------------------------------------------- updateTransaction
TxtPlaceholder ==
  <<"P", "l", "a", "c", "e", "h", "o", "l", "d", "e", "r", " ",
    "d", "e", "s", "c", "r", "i", "p", "t", "i", "o", "n">>

\* input.field || fallback: the fallback when the field is undefined, null,
\* 0 or ''
OrElse(input, field, fallback) ==
  LET falsy == CASE field = "amount" -> input[field] = 0
                 [] field = "transaction_date" -> FALSE
                 [] OTHER -> input[field] \in {Null, Some(<<>>)}
  IN IF Has(input, field) /\ ~falsy THEN input[field] ELSE fallback

\* the inputs of updateTransaction that are tried for one id: no field,
\* one field, nullable fields set to null, every field
UpdateInputs(id) ==
  { With(NoFilter, "id", id),
    With(With(NoFilter, "id", id), "description", TxtB),
    With(With(With(NoFilter, "id", id), "amount", 2500), "vendor_name", Null),
    [id |-> id, transaction_date |-> Date20240116, amount |-> 1000,
     description |-> TxtAb, account_number |-> Some(TxtAcct),
     vendor_name |-> Some(TxtB), transaction_type |-> Some("fee")] }

\* the placeholder: it reads and writes no table and resolves to a record
\* made of the input and of fixed values (now is new Date())
updateTransaction(db, input, now) ==
  [db |-> db,
   ret |-> Ok([id |-> input.id,
               document_id |-> 1,
               transaction_date |-> OrElse(input, "transaction_date", now),
               amount |-> OrElse(input, "amount", 0),
               description |-> OrElse(input, "description", TxtPlaceholder),
               account_number |-> OrElse(input, "account_number", Null),
               vendor_name |-> OrElse(input, "vendor_name", Null),
               transaction_type |-> OrElse(input, "transaction_type", Null)])]

\* --------------------------------------------------------- specification
\* the statements of the multi-statement handlers
Statement(p) ==
  \/ PD_Select(p)
  \/ PD_Mark(p)
  \/ PD_Extract(p)
  \/ PD_Insert(p)
  \/ PD_Complete(p)
  \/ PD_Catch(p)
  \/ CT_Select(p)
  \/ CT_Insert(p)

\* every handler; the single-statement handlers and the document deletion
\* run between the statements of the one multi-statement call in flight
Next ==
  \/ UploadDocument
  \/ InsertDocument
  \/ DeleteDocument
  \/ UpdateDocumentStatus
  \/ DeleteTransaction
  \/ Statement(1)

Spec == Init /\ [][Next]_vars

\* several multi-statement calls in flight at once, their statements
\* interleaving with each other, with uploads and with deletions
RaceNext ==
  \/ UploadDocument
  \/ InsertDocument
  \/ DeleteDocument
  \/ DeleteTransaction
  \/ \E p \in Procs : Statement(p)

RaceSpec == Init /\ [][RaceNext]_vars

\* processDocument calls alone, after uploads: room for two calls that both
\* insert, and nothing else that writes or deletes a document
PD_SelectConcurrent(p) ==
  \E documentId \in CallDocIds :
    /\ Free(p)
    /\ Step(p, pd_select(DB, documentId))
    /\ (nextTxId - 1) + SumOwed(Procs) + Owed(p)' <= MaxRaceTx

PdStatements(p) ==
  \/ PD_SelectConcurrent(p)
  \/ PD_Mark(p)
  \/ PD_Extract(p)
  \/ PD_Insert(p)
  \/ PD_Complete(p)
  \/ PD_Catch(p)

ProcessNext ==
  \/ UploadDocument
  \/ \E p \in Procs : PdStatements(p)

ProcessSpec == Init /\ [][ProcessNext]_vars

\* a call that has started runs on: every awaited statement resolves or
\* rejects, and the call resumes with its next statement
PdResume(p) ==
  \/ PD_Mark(p)
  \/ PD_Extract(p)
  \/ PD_Insert(p)
  \/ PD_Complete(p)
  \/ PD_Catch(p)

FairProcessSpec == ProcessSpec /\ \A p \in Procs : WF_vars(PdResume(p))

\* a search in flight between its two queries while other calls insert and
\* delete transactions
SearchNext ==
  \/ InsertTestDocument
  \/ DeleteTransaction
  \/ \E p \in Procs : Statement(p) \/ ST_Query(p) \/ ST_Count(p)

SearchSpec == Init /\ [][SearchNext]_vars

\* the fixtures of the query tests and the deletions, with no call in flight
QueryNext ==
  \/ InsertDocument
  \/ DeleteDocument
  \/ SeedTransaction
  \/ DeleteTransaction
QuerySpec == Init /\ [][QueryNext]_vars

\* ------------------------------------------------------------ properties
Normal(filename) == ~Includes(filename, TxtEmpty) /\ ~Includes(filename, TxtError)

\* the transactions of document id
TxOf(txs, id) == {t \in DOMAIN txs : txs[t].document_id = id}

\* the rows of old are all in new, unchanged
Kept(old, new) == \A k \in DOMAIN old : k \in DOMAIN new /\ new[k] = old[k]

\* C1: processDocument(id) on an existing document whose filename has
\* neither 'empty' nor 'error' inserts exactly two transactions, both of
\* document id, returns those two in insertion order, and leaves the
\* document 'completed' with error_message null.
C1_ProcessInsertsTwo ==
  \A id \in DocIds :
    Normal(documents[id].filename) =>
      LET out == processDocument(DB, id)
          new == DOMAIN out.db.transactions \ TxIds
      IN /\ out.ret.ok
         /\ Len(out.ret.value) = 2
         /\ Cardinality(new) = 2
         /\ Kept(transactions, out.db.transactions)
         /\ {out.ret.value[i].id : i \in 1..2} = new
         /\ out.ret.value[1].id < out.ret.value[2].id
         /\ \A i \in 1..2 :
              /\ out.ret.value[i].document_id = id
              /\ out.ret.value[i] = Returned(out.db.transactions[out.ret.value[i].id])
         /\ out.db.documents[id].processing_status = "completed"
         /\ out.db.documents[id].error_message = Null

\* a call on a plain document has returned: the document is completed and
\* holds the two mock transactions
C1_Witness ==
  /\ pc[1] = "idle"
  /\ \E id \in DocIds :
       /\ Normal(documents[id].filename)
       /\ documents[id].processing_status = "completed"
       /\ {transactions[t].description : t \in TxOf(transactions, id)}
            = {TxtAtmWithdrawal, TxtDirectDeposit}

\* C2: processDocument(id) on an existing document whose filename has
\* 'error' and not 'empty' throws the extraction error, inserts nothing, and
\* leaves the document 'failed' with the thrown message as error_message.
C2_ProcessErrorFails ==
  \A id \in DocIds :
    (Includes(documents[id].filename, TxtError) /\ ~Includes(documents[id].filename, TxtEmpty)) =>
      LET out == processDocument(DB, id)
      IN /\ out.ret = Err(MsgParsingFailed)
         /\ out.db.transactions = transactions
         /\ out.db.nextTxId = nextTxId
         /\ out.db.documents[id].processing_status = "failed"
         /\ out.db.documents[id].error_message = Some(MsgParsingFailed)

\* a call on an 'error' document has returned: the message it threw is stored
C2_Witness ==
  /\ pc[1] = "idle"
  /\ \E id \in DocIds :
       /\ Includes(documents[id].filename, TxtError)
       /\ documents[id].processing_status = "failed"
       /\ documents[id].error_message = Some(MsgParsingFailed)

\* C3: processDocument(id) on an existing document whose filename has
\* 'empty', with or without 'error', returns the empty list, inserts
\* nothing, and leaves the document 'completed'.
C3_ProcessEmptyCompletes ==
  \A id \in DocIds :
    Includes(documents[id].filename, TxtEmpty) =>
      LET out == processDocument(DB, id)
      IN /\ out.ret = Ok(<<>>)
         /\ out.db.transactions = transactions
         /\ out.db.nextTxId = nextTxId
         /\ out.db.documents[id].processing_status = "completed"

\* a call on a document with both markers has extracted nothing and is
\* about to write 'completed'
C3_Witness ==
  /\ pc[1] = "pd_complete"
  /\ local[1].saved = <<>>
  /\ Includes(local[1].document[1].filename, TxtEmpty)
  /\ Includes(local[1].document[1].filename, TxtError)
  /\ local[1].documentId \in DocIds

\* C4: processDocument(id) with an id that has no document row (never
\* created, or deleted before the call) throws 'Document with ID <id> not
\* found' and changes neither table.
C4_ProcessMissingThrows ==
  \A id \in (1..nextDocId) \ DocIds :
    LET out == processDocument(DB, id)
    IN /\ out.ret = Err(MsgDocumentNotFound(id))
       /\ out.db = DB

\* a call on the id of a deleted document has found no row and is in its
\* catch block
C4_Witness ==
  /\ pc[1] = "pd_catch"
  /\ local[1].error = MsgDocumentNotFound(local[1].documentId)
  /\ local[1].documentId < nextDocId
  /\ local[1].documentId \notin DocIds
  /\ DocIds # {}

\* C5: uploadDocument(input) adds exactly one document row, 'pending', with
\* error_message null and the input's original_name, file_size and
\* mime_type; it returns that row and changes no other row.
C5_UploadAddsPending ==
  \A input \in UploadInputs, timestamp \in Timestamps, randomSuffix \in RandomSuffixes :
    LET out == uploadDocument(DB, input, timestamp, randomSuffix)
        row == out.ret.value
    IN /\ out.ret.ok
       /\ row.id \notin DocIds
       /\ DOMAIN out.db.documents = DocIds \cup {row.id}
       /\ out.db.documents[row.id] = row
       /\ row.processing_status = "pending"
       /\ row.error_message = Null
       /\ row.original_name = input.original_name
       /\ row.file_size = input.file_size
       /\ row.mime_type = input.mime_type
       /\ Kept(documents, out.db.documents)
       /\ out.db.transactions = transactions

\* an uploaded document is in the table beside an older one
C5_Witness ==
  \E id \in DocIds :
    /\ documents[id].original_name = NameEmpty
    /\ documents[id].processing_status = "pending"
    /\ \E other \in DocIds : other < id

\* C6: in every reachable state every transaction's document_id is the id
\* of an existing document.
C6_ReferentialIntegrity ==
  \A t \in TxIds : transactions[t].document_id \in DocIds

\* the foreign key has rejected an insert of a call whose document was
\* deleted after the call had read it, while another document has a transaction
C6_Witness ==
  \E p \in Procs :
    /\ pc[p] = "pd_catch"
    /\ local[p].error = MsgForeignKey
    /\ local[p].documentId \notin DocIds
    /\ TxIds # {}

\* C7: a step that deletes a document row deletes exactly the transactions
\* of that document and changes no other document and no other transaction.
C7_DeleteCascades ==
  [][\A id \in DocIds :
       id \notin DOMAIN documents' =>
         /\ documents' = Remove(documents, {id})
         /\ transactions' = Remove(transactions, TxOf(transactions, id))]_vars

\* a document that had a transaction has been deleted while the
\* transaction of another document remains
C7_Witness ==
  /\ nextDocId = 3
  /\ Cardinality(DocIds) = 1
  /\ nextTxId = 3
  /\ Cardinality(TxIds) = 1
  /\ \A p \in Procs : pc[p] = "idle"

Status(docs, id) == docs[id].processing_status

\* C8 as stated: a document starts 'pending', leaves 'pending' only for
\* 'processing', leaves 'processing' only for 'completed' or 'failed', and
\* never leaves 'completed' or 'failed'.
C8_LinearStatus ==
  [][/\ \A id \in (DOMAIN documents') \ DocIds : Status(documents', id) = "pending"
     /\ \A id \in DocIds \cap DOMAIN documents' :
          Status(documents', id) # Status(documents, id) =>
            \/ Status(documents, id) = "pending" /\ Status(documents', id) = "processing"
            \/ Status(documents, id) = "processing"
                 /\ Status(documents', id) \in {"completed", "failed"}]_vars

\* C8, amended: a document starts 'pending'; a processDocument call writes
\* 'processing' with its first update and 'completed' or 'failed' with its
\* last, whatever the status was, and writes no other status; every other
\* change of a status is the single statement of updateDocumentStatus.
C8_StatusWrites ==
  [][/\ \A id \in (DOMAIN documents') \ DocIds : Status(documents', id) = "pending"
     /\ \A id \in DocIds \cap DOMAIN documents' :
          Status(documents', id) # Status(documents, id) =>
            \/ pc' = pc
            \/ \E p \in Procs :
                 /\ local[p].op = "processDocument"
                 /\ local[p].documentId = id
                 /\ \/ pc[p] = "pd_mark" /\ pc'[p] = "pd_extract"
                         /\ Status(documents', id) = "processing"
                    \/ pc[p] = "pd_complete" /\ pc'[p] = "idle"
                         /\ Status(documents', id) = "completed"
                    \/ pc[p] = "pd_catch" /\ pc'[p] = "idle"
                         /\ Status(documents', id) = "failed"]_vars

\* a document that an earlier call completed is being processed again:
\* it holds the two mock transactions and is back at 'processing'
C8_Witness ==
  /\ pc[1] = "pd_extract"
  /\ local[1].documentId \in DocIds
  /\ Status(documents, local[1].documentId) = "processing"
  /\ Cardinality(TxOf(transactions, local[1].documentId)) = 2

\* C9: deleteTransaction(id) with the id of an existing transaction removes
\* that one row, returns success = true, and changes no other transaction
\* and no document.
C9_DeleteRemovesOne ==
  \A id \in TxIds :
    LET out == deleteTransaction(DB, id)
    IN /\ out.ret.ok
       /\ out.ret.value = [success |-> TRUE]
       /\ DOMAIN out.db.transactions = TxIds \ {id}
       /\ Kept(out.db.transactions, transactions)
       /\ out.db.documents = documents

\* with no document ever deleted, one transaction was deleted and another,
\* of the same document, remains
C9_Witness ==
  /\ Cardinality(DocIds) = nextDocId - 1
  /\ \A p \in Procs : pc[p] = "idle"
  /\ nextTxId = 3
  /\ \E t \in TxIds : TxIds = {t} /\ transactions[t].description = TxtAtmWithdrawal

\* C10: deleteTransaction(id) with an id that has no transaction row (also
\* one an earlier call deleted) throws 'Transaction with id <id> not found'
\* and changes neither table.
C10_DeleteMissingThrows ==
  \A id \in (1..nextTxId) \ TxIds :
    LET out == deleteTransaction(DB, id)
    IN /\ ~out.ret.ok
       /\ out.ret.value = MsgTransactionNotFound(id)
       /\ out.db = DB

\* with no document ever deleted, every transaction created was deleted
C10_Witness ==
  /\ Cardinality(DocIds) = nextDocId - 1
  /\ \A p \in Procs : pc[p] = "idle"
  /\ nextTxId = 3
  /\ TxIds = {}

\* the fields of a transaction that createTransaction takes from its input
InputFields(t) ==
  [document_id |-> t.document_id, transaction_date |-> t.transaction_date,
   amount |-> t.amount, description |-> t.description,
   account_number |-> t.account_number, vendor_name |-> t.vendor_name,
   transaction_type |-> t.transaction_type]

\* C11 as stated: createTransaction(input) with the document_id of an
\* existing document inserts exactly one transaction, under a fresh id, whose
\* seven input fields equal the input's (the amount too), returns it, and
\* changes no other row.
C11_CreateInsertsInput ==
  \A document_id \in DocIds, data \in CreateData :
    LET input == CreateInput(document_id, data)
        out == createTransaction(DB, input)
    IN /\ out.ret.ok
       /\ out.ret.value.id \notin 1..(nextTxId - 1)
       /\ DOMAIN out.db.transactions = TxIds \cup {out.ret.value.id}
       /\ InputFields(out.ret.value) = input
       /\ Returned(out.db.transactions[out.ret.value.id]) = out.ret.value
       /\ Kept(transactions, out.db.transactions)
       /\ out.db.documents = documents

\* C12: createTransaction(input) with a document_id that has no document
\* throws 'Document with ID <document_id> not found' and leaves both tables
\* (and the serial of transactions) as they were.
C12_CreateMissingThrows ==
  \A document_id \in CallDocIds \ DocIds, data \in CreateData :
    LET out == createTransaction(DB, CreateInput(document_id, data))
    IN /\ ~out.ret.ok
       /\ out.ret.value = MsgDocumentNotFound(document_id)
       /\ out.db = DB

\* a document was deleted while it held a transaction, and another document
\* with a transaction remains
C12_Witness ==
  /\ \A p \in Procs : pc[p] = "idle"
  /\ nextDocId = 3
  /\ DocIds = {2}
  /\ nextTxId = 3
  /\ TxIds = {2}

\* C13: updateDocumentStatus(input) on an existing document stores
\* input.processing_status, and as error_message: null when the status is
\* not 'failed'; input.error_message when it is 'failed' and the input has
\* one (null included); the stored error_message when it is 'failed' and
\* the input has none.  It returns the updated row and changes nothing else.
C13_StatusUpdateSets ==
  \A id \in DocIds :
    \A input \in StatusInputs(id) :
      LET out == updateDocumentStatus(DB, input)
          row == out.db.documents[id]
      IN /\ out.ret.ok
         /\ out.ret.value = row
         /\ row.processing_status = input.processing_status
         /\ input.processing_status # "failed" => row.error_message = Null
         /\ input.processing_status = "failed" /\ "error_message" \in DOMAIN input
              => row.error_message = input.error_message
         /\ input.processing_status = "failed" /\ "error_message" \notin DOMAIN input
              => row.error_message = documents[id].error_message
         /\ [row EXCEPT !.processing_status = documents[id].processing_status,
                        !.error_message = documents[id].error_message] = documents[id]
         /\ \A other \in DocIds \ {id} : out.db.documents[other] = documents[other]
         /\ DOMAIN out.db.documents = DocIds
         /\ out.db.transactions = transactions

\* a document that processDocument left 'failed' with the extraction's
\* message: 'failed' without error_message keeps that message
C13_Witness ==
  /\ \A p \in Procs : pc[p] = "idle"
  /\ \E id \in DocIds :
       /\ documents[id].processing_status = "failed"
       /\ documents[id].error_message = Some(MsgParsingFailed)

\* C14: updateDocumentStatus(input) with an id that has no document throws
\* 'Document with id <id> not found' and changes no document and no
\* transaction.
C14_StatusMissingThrows ==
  \A id \in CallDocIds \ DocIds :
    \A input \in StatusInputs(id) :
      LET out == updateDocumentStatus(DB, input)
      IN /\ ~out.ret.ok
         /\ out.ret.value = MsgStatusNotFound(id)
         /\ out.db = DB

\* the only document ever created was deleted; its id and the next one
\* have no row
C14_Witness ==
  /\ \A p \in Procs : pc[p] = "idle"
  /\ nextDocId = 2
  /\ DocIds = {}

\* search_term occurs in text, the case of letters set aside
ContainsFolded(text, search_term) == Includes(LowerText(text), LowerText(search_term))

\* a returned transaction satisfies every filter the input supplies
Satisfies(t, input) ==
  /\ Has(input, "search_term") =>
       \/ ContainsFolded(t.description, input.search_term)
       \/ t.vendor_name # Null /\ ContainsFolded(t.vendor_name[1], input.search_term)
  /\ Has(input, "date_from") => input.date_from <= t.transaction_date
  /\ Has(input, "date_to") => t.transaction_date <= input.date_to
  /\ Has(input, "min_amount") => input.min_amount <= t.amount
  /\ Has(input, "max_amount") => t.amount <= input.max_amount
  /\ Has(input, "account_number") => t.account_number = Some(input.account_number)
  /\ Has(input, "vendor_name") => t.vendor_name = Some(input.vendor_name)
  /\ Has(input, "transaction_type") => t.transaction_type = Some(input.transaction_type)

\* C15 as stated: every transaction searchTransactions returns satisfies all
\* supplied filters at once (dates and amounts within inclusive bounds,
\* account_number, vendor_name and transaction_type equal to the given
\* values, search_term a case-insensitive substring of description or of a
\* non-null vendor_name), and a stored transaction that satisfies them is
\* excluded by nothing: it is among the rows the query selects.
C15_SearchFilters ==
  \A filter \in SearchFilters, page \in Pages, limit \in Limits :
    LET input == SearchInput(filter, "transaction_date", "desc", page, limit)
    IN /\ \A order \in Orders(DB, input) :
            LET out == searchTransactions(DB, input, order).ret.value
            IN \A i \in 1..Len(out.transactions) : Satisfies(out.transactions[i], input)
       /\ \A id \in TxIds :
            Satisfies(Returned(transactions[id]), input) => id \in Matches(DB, input)

\* the stored transactions that satisfy the filters of the input
Satisfying(input) == {id \in TxIds : Satisfies(Returned(transactions[id]), input)}

\* C16 as stated: total_count is the number of stored transactions that
\* satisfy the filters, whatever the page, the limit and the sorting;
\* total_pages is ceil(total_count / limit); page and limit are the
\* input's; and when no stored transaction satisfies the filters the list
\* is empty and total_count and total_pages are 0.
C16_SearchCounts ==
  \A filter \in SearchFilters, sort_by \in {"transaction_date", "amount"},
     sort_order \in SortOrders, page \in Pages, limit \in Limits :
    LET input == SearchInput(filter, sort_by, sort_order, page, limit)
    IN \A order \in Orders(DB, input) :
         LET out == searchTransactions(DB, input, order).ret.value
         IN /\ out.total_count = Cardinality(Satisfying(input))
            /\ out.total_pages = Ceil(out.total_count, limit)
            /\ out.page = page
            /\ out.limit = limit
            /\ Satisfying(input) = {} =>
                 /\ out.transactions = <<>>
                 /\ out.total_count = 0
                 /\ out.total_pages = 0

\* the ids of the transactions a response lists, in its order
IdsOf(response) == [i \in 1..Len(response.transactions) |-> response.transactions[i].id]

\* the filters with which paging and sorting are tried
PagingFilters ==
  { NoFilter,
    With(NoFilter, "account_number", TxtAcct),
    With(NoFilter, "min_amount", 1005) }

\* C17 as stated: for a fixed store, filter, sort and limit, the pages of
\* searchTransactions partition the matches, one call per page: a page has
\* at most limit transactions, there is one sorted list of the matches of
\* which every page p is the positions (p-1)*limit+1 .. p*limit, two pages
\* share no transaction, and pages 1..total_pages hold every match exactly
\* once; also when matches have equal sort keys.
C17_PagesPartition ==
  \A filter \in PagingFilters, sort_by \in SortBys, sort_order \in SortOrders,
     limit \in Limits :
    LET input(p) == SearchInput(filter, sort_by, sort_order, p, limit)
        matches == Matches(DB, input(1))
    IN \A run \in [Pages -> Orders(DB, input(1))] :
         LET page(p) == IdsOf(searchTransactions(DB, input(p), run[p]).ret.value)
             total_pages == searchTransactions(DB, input(1), run[1]).ret.value.total_pages
         IN /\ \A p \in Pages : Len(page(p)) <= limit
            /\ \E sorted \in Orders(DB, input(1)) :
                 \A p \in Pages : page(p) = Page(sorted, p, limit)
            /\ \A p, q \in Pages :
                 p # q => \A i \in DOMAIN page(p), j \in DOMAIN page(q) : page(p)[i] # page(q)[j]
            /\ total_pages <= MaxPage
            /\ \A id \in matches :
                 Cardinality({pi \in (1..total_pages) \X (1..limit) :
                                /\ pi[2] <= Len(page(pi[1]))
                                /\ page(pi[1])[pi[2]] = id}) = 1

\* the value of transaction a in the column sort_by is at most that of b;
\* a missing vendor_name counts as greater than every name
ColumnLeq(a, b, sort_by) ==
  CASE sort_by = "transaction_date" -> a.transaction_date <= b.transaction_date
    [] sort_by = "amount" -> a.amount <= b.amount
    [] sort_by = "description" -> TextLeq(a.description, b.description)
    [] sort_by = "vendor_name" ->
         IF b.vendor_name = Null THEN TRUE
         ELSE IF a.vendor_name = Null THEN FALSE
         ELSE TextLeq(a.vendor_name[1], b.vendor_name[1])

\* C18: the list searchTransactions returns is ordered by the column named
\* in sort_by, non-decreasing for sort_order 'asc' and non-increasing for
\* 'desc', on every page and for every order the database gives equal keys.
C18_SearchSorted ==
  \A filter \in PagingFilters, sort_by \in SortBys, sort_order \in SortOrders,
     page \in Pages, limit \in Limits :
    LET input == SearchInput(filter, sort_by, sort_order, page, limit)
    IN \A order \in Orders(DB, input) :
         LET list == searchTransactions(DB, input, order).ret.value.transactions
         IN \A i \in 1..(Len(list) - 1) :
              /\ sort_order = "asc" => ColumnLeq(list[i], list[i + 1], sort_by)
              /\ sort_order = "desc" => ColumnLeq(list[i + 1], list[i], sort_by)

\* three transactions stored whose descriptions all differ, one of them
\* without vendor: a page of two has an order to keep in every column
C18_Witness ==
  /\ Cardinality(TxIds) = 3
  /\ \A t, u \in TxIds : t # u => transactions[t].description # transactions[u].description
  /\ \E t \in TxIds : transactions[t].vendor_name = Null

\* C19: getDocumentTransactions(id) on an existing document returns the
\* transactions whose document_id is id, each once and no other, with
\* non-decreasing transaction_date (an empty list when it has none); it
\* throws 'Document with ID <id> not found' exactly when no document has
\* that id.
C19_DocumentTransactions ==
  \A id \in CallDocIds :
    \A order \in DocumentOrders(DB, id) :
      LET out == getDocumentTransactions(DB, id, order)
          list == out.ret.value
      IN /\ out.db = DB
         /\ out.ret.ok <=> id \in DocIds
         /\ ~out.ret.ok => list = MsgDocumentNotFound(id)
         /\ out.ret.ok =>
              /\ {list[i].id : i \in DOMAIN list} = TxOf(transactions, id)
              /\ Len(list) = Cardinality(TxOf(transactions, id))
              /\ \A i \in DOMAIN list : list[i] = Returned(transactions[list[i].id])
              /\ \A i \in 1..(Len(list) - 1) :
                   list[i].transaction_date <= list[i + 1].transaction_date
              /\ TxOf(transactions, id) = {} => list = <<>>

\* one document holds two transactions stored against the order of their
\* dates, another document holds a transaction too
C19_Witness ==
  /\ \E t, u \in TxIds :
       /\ t < u
       /\ transactions[t].document_id = transactions[u].document_id
       /\ transactions[t].transaction_date > transactions[u].transaction_date
  /\ \E t, u \in TxIds : transactions[t].document_id # transactions[u].document_id

\* the documents uploadDocument created: the fixtures carry the tests'
\* filenames
Uploaded(id) == documents[id].filename \notin TestFilenames

\* C20 as stated: any two documents created by uploadDocument have
\* different ids and different stored filenames, and the filename an upload
\* stores is the generated doc_<timestamp>_<random>.pdf, never the input's
\* filename or original_name.
C20_UploadsDistinct ==
  /\ \A d, e \in DocIds :
       d # e /\ Uploaded(d) /\ Uploaded(e) =>
         /\ documents[d].id # documents[e].id
         /\ documents[d].filename # documents[e].filename
  /\ \A input \in {i \in UploadInputs : uploadDocumentInputSchema(i)},
        timestamp \in Timestamps, randomSuffix \in RandomSuffixes :
       LET row == uploadDocument(DB, input, timestamp, randomSuffix).ret.value
       IN /\ \A d \in DocIds : row.id # documents[d].id
          /\ row.filename = GeneratedFilename(timestamp, randomSuffix)
          /\ row.filename # input.filename
          /\ row.filename # input.original_name

\* the stored row with the fields the input provides written into it
Patched(row, input) ==
  [f \in DOMAIN row |->
     IF f = "id" \/ ~Has(input, f) THEN row[f]
     ELSE IF f = "amount" THEN ToNumeric(input[f])
     ELSE input[f]]

\* C21 as stated: updateTransaction(input) rejects when no transaction has
\* input.id; otherwise it writes the provided fields into the stored
\* transaction, leaves its other fields and every other row as they are,
\* and returns the updated stored transaction.
C21_UpdateTransactionStores ==
  \A id \in CallTxIds :
    \A input \in UpdateInputs(id), now \in SearchDates :
      LET out == updateTransaction(DB, input, now)
      IN IF id \notin TxIds
         THEN ~out.ret.ok /\ out.db = DB
         ELSE /\ out.ret.ok
              /\ DOMAIN out.db.transactions = TxIds
              /\ out.db.transactions[id] = Patched(transactions[id], input)
              /\ \A other \in TxIds \ {id} : out.db.transactions[other] = transactions[other]
              /\ out.ret.value = Returned(out.db.transactions[id])
              /\ out.db.documents = documents

\* C22: the uploadDocument procedure rejects an input whose mime_type is not
\* 'application/pdf' or whose file_size is not positive before the handler
\* runs: the call fails, no row is created, and so no uploaded document in
\* the table has such a mime_type or file_size.
C22_UploadValidates ==
  /\ \A input \in UploadInputs, timestamp \in Timestamps, randomSuffix \in RandomSuffixes :
       input.mime_type # TxtPdfMime \/ input.file_size <= 0 =>
         LET out == uploadDocumentRpc(DB, input, timestamp, randomSuffix)
         IN /\ ~out.ret.ok
            /\ out.db = DB
  /\ \A id \in DocIds :
       Uploaded(id) => documents[id].mime_type = TxtPdfMime /\ documents[id].file_size > 0

\* one upload went through and the table has room for another row
C22_Witness ==
  /\ nextDocId = 2
  /\ DocIds = {1}
  /\ Uploaded(1)
  /\ \A p \in Procs : pc[p] = "idle"
  /\ TxIds = {}

\* C23: getTransactions() returns every stored transaction exactly once,
\* with non-increasing transaction_date, an empty list when the table is
\* empty, and changes no row.
C23_AllTransactions ==
  \A order \in AllOrders(DB) :
    LET out == getTransactions(DB, order)
        list == out.ret.value
    IN /\ out.ret.ok
       /\ out.db = DB
       /\ {list[i].id : i \in DOMAIN list} = TxIds
       /\ Len(list) = Cardinality(TxIds)
       /\ \A i \in DOMAIN list : list[i] = Returned(transactions[list[i].id])
       /\ \A i \in 1..(Len(list) - 1) :
            list[i].transaction_date >= list[i + 1].transaction_date
       /\ TxIds = {} => list = <<>>

\* three transactions are stored, an older one before a more recent one:
\* the list is not in the order of the ids
C23_Witness ==
  /\ Cardinality(TxIds) = 3
  /\ \E t, u \in TxIds :
       t < u /\ transactions[t].transaction_date < transactions[u].transaction_date

\* the call in slot p has made its 'processing' update and not yet its last one
Between(p) ==
  /\ local[p].op = "processDocument"
  /\ pc[p] \in {"pd_extract", "pd_insert", "pd_complete"}

\* the step is a statement of the call in slot p
StepOf(p) == pc'[p] # pc[p] \/ local'[p] # local[p]

\* the order of one call's writes: the first update sets 'processing' and
\* clears error_message before the call has inserted anything, every insert
\* of the call is a pass of its loop, and the 'completed' update comes when
\* every extracted transaction has been inserted
PdOrder(p) ==
  /\ pc[p] = "pd_mark" /\ StepOf(p) =>
       /\ local[p].saved = <<>>
       /\ transactions' = transactions
       /\ pc'[p] = "pd_extract"
       /\ local[p].documentId \in DocIds =>
            /\ Status(documents', local[p].documentId) = "processing"
            /\ documents'[local[p].documentId].error_message = Null
  /\ local[p].op = "processDocument" /\ StepOf(p) /\ transactions' # transactions =>
       /\ pc[p] = "pd_insert"
       /\ documents' = documents
       /\ Len(local'[p].saved) = Len(local[p].saved) + 1
       /\ Len(local'[p].saved) <= Len(local[p].extracted)
  /\ pc[p] = "pd_complete" /\ StepOf(p) =>
       /\ Len(local[p].saved) = Len(local[p].extracted)
       /\ transactions' = transactions
       /\ pc'[p] = "idle"
       /\ local[p].documentId \in DocIds =>
            /\ Status(documents', local[p].documentId) = "completed"
            /\ documents'[local[p].documentId].error_message = Null

\* C24 as stated: within one processDocument call the 'processing' update
\* precedes every insert of the call and the 'completed' update follows the
\* last one, and whoever reads the document between the two updates of a
\* call finds 'processing'.
C24_SeesProcessing ==
  [][\A p \in Procs :
       /\ PdOrder(p)
       /\ Between(p)' /\ local'[p].documentId \in DOMAIN documents' =>
            Status(documents', local'[p].documentId) = "processing"]_vars

\* C24, amended: within one processDocument call the 'processing' update
\* (error_message cleared) precedes every insert of the call and the
\* 'completed' update follows the last one; between its two updates the call
\* itself writes no document, so the document reads 'processing' until
\* another call (updateDocumentStatus, another processDocument) writes it.
C24_UpdateOrder ==
  [][\A p \in Procs :
       /\ PdOrder(p)
       /\ Between(p) /\ Between(p)' /\ documents' # documents => ~StepOf(p)]_vars

\* a call has inserted both mock transactions and is about to write
\* 'completed': the document still reads 'processing'
C24_Witness ==
  /\ pc[1] = "pd_complete"
  /\ local[1].documentId \in DocIds
  /\ Status(documents, local[1].documentId) = "processing"
  /\ documents[local[1].documentId].error_message = Null
  /\ Len(local[1].saved) = 2
  /\ \A i \in 1..2 : local[1].saved[i].id \in TxIds

\* C25: concurrent processDocument calls on one document are not serialized:
\* whatever status another call has left on the document, a call in flight
\* goes on with its next statement, its insert is accepted and its status
\* update overwrites; so the document reads 'completed' while another call
\* on it has not inserted all of its transactions (C25_Witness).
C25_NotSerialized ==
  \A p \in Procs :
    local[p].op = "processDocument" /\ local[p].documentId \in DocIds =>
      LET id == local[p].documentId
          c == PdStatement([db |-> DB, pc |-> pc[p], local |-> local[p]])
      IN /\ pc[p] = "pd_mark" => Status(c.db.documents, id) = "processing"
         /\ pc[p] = "pd_insert" =>
              /\ c.pc \in {"pd_insert", "pd_complete"}
              /\ c.db.documents = documents
              /\ DOMAIN c.db.transactions = TxIds \cup {nextTxId}
              /\ c.db.transactions[nextTxId].document_id = id
         /\ pc[p] = "pd_complete" => Status(c.db.documents, id) = "completed"

\* the document reads 'completed', written by one call, while another call
\* on it has inserted one of its two transactions
C25_Witness ==
  \E p \in Procs :
    /\ pc[p] = "pd_insert"
    /\ local[p].documentId \in DocIds
    /\ Status(documents, local[p].documentId) = "completed"
    /\ Len(local[p].saved) = 1
    /\ Len(local[p].extracted) = 2

\* C26: every document whose processing_status is not 'failed' has
\* error_message = null, in every state that uploads, processDocument calls
\* and updateDocumentStatus calls reach, between their statements included.
C26_ErrorOnlyWhenFailed ==
  \A id \in DocIds :
    Status(documents, id) # "failed" => documents[id].error_message = Null

\* a call has made its first update: its document reads 'processing' with
\* no message, next to a document that is 'failed' with one
C26_Witness ==
  /\ pc[1] = "pd_extract"
  /\ local[1].documentId \in DocIds
  /\ Status(documents, local[1].documentId) = "processing"
  /\ documents[local[1].documentId].error_message = Null
  /\ \E id \in DocIds :
       /\ Status(documents, id) = "failed"
       /\ documents[id].error_message # Null

\* the ids of a list of returned rows
RowIds(rows) == {rows[i].id : i \in DOMAIN rows}

\* the ids of the rows that the calls in flight on document id have inserted
HeldIds(loc, id) ==
  UNION { RowIds(loc[p].saved) :
          p \in {q \in Procs : loc[q].op = "processDocument" /\ loc[q].documentId = id} }

\* the transactions of document id that calls which have returned inserted
Settled(txs, loc, id) == Cardinality(TxOf(txs, id) \ HeldIds(loc, id))

\* C27: processDocument does not read the status: on a document with a
\* normal filename every successful call appends two new transactions.  Run
\* one after the other, k calls leave 2k more transactions with 2k distinct
\* ids; run concurrently, every returning call settles exactly two of the
\* document's transactions, no other step settles or removes one, and no two
\* calls hold the same id, so that k returned calls make exactly 2k.
C27_TwoPerCall ==
  [][\A id \in DocIds :
       Normal(documents[id].filename) =>
         /\ LET c1 == processDocument(DB, id)
                c2 == processDocument(c1.db, id)
                c3 == processDocument(c2.db, id)
                n == Cardinality(TxOf(transactions, id))
                ids == RowIds(c1.ret.value) \cup RowIds(c2.ret.value) \cup RowIds(c3.ret.value)
            IN /\ c1.ret.ok /\ c2.ret.ok /\ c3.ret.ok
               /\ Cardinality(TxOf(c1.db.transactions, id)) = n + 2
               /\ Cardinality(TxOf(c2.db.transactions, id)) = n + 4
               /\ Cardinality(TxOf(c3.db.transactions, id)) = n + 6
               /\ Cardinality(ids) = 6
               /\ ids \cap TxIds = {}
               /\ ids \subseteq TxOf(c3.db.transactions, id)
         /\ id \in DOMAIN documents'
         /\ \A p, q \in Procs :
              /\ local[p].op = "processDocument" /\ local[p].documentId = id =>
                   /\ RowIds(local[p].saved) \subseteq TxOf(transactions, id)
                   /\ Cardinality(RowIds(local[p].saved)) = Len(local[p].saved)
              /\ p # q /\ local[p].op = "processDocument"
                      /\ local[q].op = "processDocument" =>
                   RowIds(local[p].saved) \cap RowIds(local[q].saved) = {}
         /\ IF \E p \in Procs : /\ pc[p] = "pd_complete" /\ StepOf(p)
                                 /\ local[p].documentId = id
            THEN Settled(transactions', local', id) = Settled(transactions, local, id) + 2
            ELSE Settled(transactions', local', id) = Settled(transactions, local, id)]_vars

\* two calls on one document ran concurrently and have returned: both first
\* transactions were inserted before both second ones, and the document has
\* four transactions
C27_Witness ==
  /\ \A p \in Procs : pc[p] = "idle"
  /\ \E id \in DocIds :
       /\ Normal(documents[id].filename)
       /\ TxOf(transactions, id) = 1..4
       /\ transactions[1].transaction_date = transactions[2].transaction_date
       /\ transactions[3].transaction_date = transactions[4].transaction_date
       /\ transactions[1].transaction_date # transactions[3].transaction_date

\* a processDocument call on document id is in flight
InFlight(id) ==
  \E p \in Procs : local[p].op = "processDocument" /\ local[p].documentId = id

\* C28: every processDocument call returns, and the last write of a call on
\* an existing document sets 'completed' or 'failed'; so, with no
\* updateDocumentStatus call and no deletion, a document on which no call is
\* in flight is not 'processing', and a document that is 'processing' comes
\* to be 'completed' or 'failed'.
C28_Terminates ==
  /\ \A p \in Procs : (pc[p] # "idle") ~> (pc[p] = "idle")
  /\ [][\A p \in Procs :
          local[p].op = "processDocument" /\ StepOf(p) /\ pc'[p] = "idle"
            /\ local[p].documentId \in DOMAIN documents' =>
              Status(documents', local[p].documentId) \in {"completed", "failed"}]_vars
  /\ [](\A id \in DocIds : ~InFlight(id) => Status(documents, id) # "processing")
  /\ \A id \in 1..MaxDocs :
       (id \in DocIds /\ Status(documents, id) = "processing")
         ~> (id \in DocIds /\ Status(documents, id) \in {"completed", "failed"})

\* every call has returned: one document was left 'failed' by a call whose
\* extraction threw, the other 'completed' with its two transactions
C28_Witness ==
  /\ \A p \in Procs : pc[p] = "idle"
  /\ \E id, other \in DocIds :
       /\ Status(documents, id) = "failed"
       /\ documents[id].error_message = Some(MsgParsingFailed)
       /\ Status(documents, other) = "completed"
       /\ Cardinality(TxOf(transactions, other)) = 2

\* max(0, n)
Max0(n) == IF n > 0 THEN n ELSE 0

\* the response of the search in slot p, were its count query to run now
Response(p) == st_count(DB, local[p]).ret.value

\* the page of the response is within limit and within what total_count
\* leaves after the offset
WithinCount(response) ==
  /\ Len(response.transactions) <= response.limit
  /\ Len(response.transactions)
       <= Max0(response.total_count - (response.page - 1) * response.limit)

\* C29 as stated: every searchTransactions response has at most limit
\* transactions and at most max(0, total_count - (page-1)*limit), whatever
\* other calls do between its two queries.
C29_PageWithinCount ==
  \A p \in Procs : pc[p] = "st_count" => WithinCount(Response(p))

\* C29, amended: a response never has more than limit transactions; it has
\* at most max(0, total_count - (page-1)*limit) right after the page query,
\* and that bound survives every step of other calls that deletes no
\* transaction (the inserts of createTransaction and processDocument).
C29_PageWithinCountUnlessDeleted ==
  [][\A p \in Procs :
       /\ pc'[p] = "st_count" =>
            Len(Response(p)'.transactions) <= Response(p)'.limit
       /\ pc[p] # "st_count" /\ pc'[p] = "st_count" => WithinCount(Response(p))'
       /\ pc[p] = "st_count" /\ pc'[p] = "st_count" /\ TxIds \subseteq DOMAIN transactions'
            /\ WithinCount(Response(p)) => WithinCount(Response(p))']_vars

\* a search is between its two queries and a transaction has been inserted
\* since the page query: the page holds one row where two now match
C29_Witness ==
  \E p \in Procs :
    /\ pc[p] = "st_count"
    /\ local[p].input.page = 1
    /\ local[p].input.limit = 2
    /\ Len(local[p].results) = 1
    /\ Response(p).total_count = 2

\* the names under which a file is uploaded
UploadNames == {NameBank, NameEmpty, NameError}

\* uploadDocument of a file with the given names, then processDocument of
\* the document it returned, as the client does
UploadAndProcess(db, filename, original_name, timestamp, randomSuffix) ==
  LET up == uploadDocumentRpc(db, [filename |-> filename, original_name |-> original_name,
                                    file_size |-> 2048, mime_type |-> TxtPdfMime],
                              timestamp, randomSuffix)
  IN [id |-> up.ret.value.id, out |-> processDocument(up.db, up.ret.value.id)]

\* C30: what processDocument does with an uploaded document depends on the
\* generated filename alone: uploads that differ only in input.filename and
\* original_name get the same result, the same transactions and the same
\* status, and unless the generated filename contains 'error' or 'empty' the
\* result is the two mock transactions and status 'completed', also for a
\* file named 'error.pdf' or 'empty.pdf'.
C30_NamesDoNotMatter ==
  \A timestamp \in Timestamps, randomSuffix \in RandomSuffixes :
    \A filename \in UploadNames, original_name \in UploadNames :
      LET run == UploadAndProcess(DB, filename, original_name, timestamp, randomSuffix)
          ref == UploadAndProcess(DB, NameBank, NameBank, timestamp, randomSuffix)
          row == run.out.db.documents[run.id]
          generated == GeneratedFilename(timestamp, randomSuffix)
      IN /\ run.id = ref.id
         /\ run.out.ret = ref.out.ret
         /\ run.out.db.transactions = ref.out.db.transactions
         /\ row.filename = generated
         /\ row.processing_status = ref.out.db.documents[ref.id].processing_status
         /\ row.error_message = ref.out.db.documents[ref.id].error_message
         /\ Normal(generated) =>
              /\ run.out.ret.ok
              /\ Len(run.out.ret.value) = 2
              /\ Cardinality(TxOf(run.out.db.transactions, run.id)) = 2
              /\ row.processing_status = "completed"
         /\ Includes(generated, TxtEmpty) =>
              /\ run.out.ret.ok
              /\ run.out.ret.value = <<>>
              /\ row.processing_status = "completed"
         /\ ~Includes(generated, TxtEmpty) /\ Includes(generated, TxtError) =>
              /\ ~run.out.ret.ok
              /\ row.processing_status = "failed"

\* a file uploaded as 'empty.pdf' was stored under a generated name without
\* a marker and processed: 'completed' with two transactions, beside one
\* whose generated name has a marker and that has no transaction
C30_Witness ==
  \E id, other \in DocIds :
    /\ documents[id].original_name = NameEmpty
    /\ Normal(documents[id].filename)
    /\ Status(documents, id) = "completed"
    /\ Cardinality(TxOf(transactions, id)) = 2
    /\ ~Normal(documents[other].filename)
    /\ Status(documents, other) \in {"completed", "failed"}
    /\ TxOf(transactions, other) = {}

====
